---- MODULE Spec2Model ----
(***************************************************************************)
(* A model of rbtools' BaseSCMClient patch application                     *)
(* (rbtools/clients/base/scmclient.py): the -p derivation _get_p_number,   *)
(* the prefix stripping _strip_p_num_slashes and apply_patch.              *)
(*                                                                         *)
(* Text is modelled as a sequence of one-character strings, so that        *)
(* str.startswith, str.count, int(), '%d' and re.sub are computed and not  *)
(* assumed.  The output of the patch command is a sequence of message      *)
(* pieces (the fatal preamble, the only-garbage remainder, other text).    *)
(***************************************************************************)
EXTENDS Integers, Sequences, FiniteSets, TLC

VARIABLES
    \* one apply_patch call
    pc,              \* "call" before the call, "done" after it, "idle" in the other specifications
    base_path,       \* argument of apply_patch
    base_dir,        \* argument of apply_patch
    p,               \* argument of apply_patch (None, an int or a str)
    revert,          \* argument of apply_patch
    supports_empty,  \* what the backend's supports_empty_files() returns
    cmd,             \* the command line handed to execute()
    proc_rc,         \* exit code of the patch process
    proc_out,        \* combined output of the patch process
    calls,           \* the collaborators apply_patch called, in order
    outcome,         \* how apply_patch ended
    \* one _get_p_number call
    pnum,
    \* a run of _strip_p_num_slashes calls
    strip,
    \* a client object and the calls made on it
    is_setup,        \* self.is_setup
    _has_deps,       \* self._has_deps: "None", "True" or "False"
    last_check,      \* how the latest check_dependencies() ended: "none", "passed", "failed"
    setup_failed,    \* some setup() call on the client raised SCMClientDependencyError
    ncalls,          \* calls made on the client so far
    last,            \* the latest call on the client and what it did
    \* one parse_revision_spec call of the Perforce backend
    revspec,
    \* one diff synthesis of the Perforce backend
    synth,
    \* one get_commit_message call
    msg,
    \* a review request on the server and the close_review_request calls on it
    hook

varsApply == <<pc, base_path, base_dir, p, revert, supports_empty, cmd,
               proc_rc, proc_out, calls, outcome>>
varsClient == <<is_setup, _has_deps, last_check, setup_failed, ncalls, last>>
vars == <<pc, base_path, base_dir, p, revert, supports_empty, cmd,
          proc_rc, proc_out, calls, outcome, pnum, strip,
          is_setup, _has_deps, last_check, setup_failed, ncalls, last, revspec,
          synth, msg, hook>>
varsLate == <<synth, msg, hook>>

(***************************************************************************)
(* Bounds                                                                  *)
(***************************************************************************)
MaxArgPathLen == 1   \* characters of base_path / base_dir in an apply_patch call
MaxExitCode == 3     \* exit codes 0..MaxExitCode of the patch process
MaxP == 2            \* largest explicit p given to apply_patch
MaxPathLen == 3      \* characters of base_path / base_dir in a _get_p_number call
MaxNameLen == 3      \* characters of a filename given to _strip_p_num_slashes
MaxStrip == 3        \* largest p_num given to _strip_p_num_slashes
MaxStripCalls == 2   \* successive _strip_p_num_slashes calls on one list

SeqsUpTo(S, n) == UNION {[1..k -> S] : k \in 0..n}

(***************************************************************************)
(* Python text and value primitives                                        *)
(***************************************************************************)
\* str.startswith(prefix)
StartsWith(s, prefix) ==
    /\ Len(prefix) <= Len(s)
    /\ SubSeq(s, 1, Len(prefix)) = prefix

\* str.count(ch) for a one-character ch
Count(s, ch) == Cardinality({i \in 1..Len(s) : s[i] = ch})

\* s[i:] with a 0-based i
From(s, i) == SubSeq(s, i + 1, Len(s))

\* The values the p argument takes: None, an int, a str.
None == [kind |-> "None", int |-> 0, str |-> <<>>]
PyInt(n) == [kind |-> "int", int |-> n, str |-> <<>>]
PyStr(s) == [kind |-> "str", int |-> 0, str |-> s]

\* Python truth value: None, 0 and '' are false.
Truthy(v) ==
    CASE v.kind = "None" -> FALSE
      [] v.kind = "int" -> v.int # 0
      [] v.kind = "str" -> v.str # <<>>

\* Python's `a or b`
Or(a, b) == IF Truthy(a) THEN a ELSE b

Digits == <<"0", "1", "2", "3", "4", "5", "6", "7", "8", "9">>

IsDigit(c) == \E d \in 1..10 : Digits[d] = c

DigitValue(c) == (CHOOSE d \in 1..10 : Digits[d] = c) - 1

RECURSIVE DecimalValue(_)
DecimalValue(s) ==
    IF s = <<>> THEN 0
    ELSE 10 * DecimalValue(SubSeq(s, 1, Len(s) - 1)) + DigitValue(s[Len(s)])

AllDigits(s) == s # <<>> /\ \A i \in 1..Len(s) : IsDigit(s[i])

\* int(v): ok = FALSE stands for ValueError.  A str is an optional '-'
\* followed by decimal digits (the inputs contain no blanks, '+' or '_').
int(v) ==
    IF v.kind = "int" THEN [ok |-> TRUE, val |-> v.int]
    ELSE IF AllDigits(v.str) THEN [ok |-> TRUE, val |-> DecimalValue(v.str)]
    ELSE IF v.str # <<>> /\ v.str[1] = "-" /\ AllDigits(Tail(v.str))
         THEN [ok |-> TRUE, val |-> 0 - DecimalValue(Tail(v.str))]
    ELSE [ok |-> FALSE, val |-> 0]

\* '%d' % n
RECURSIVE FormatInt(_)
FormatInt(n) ==
    IF n < 0 THEN <<"-">> \o FormatInt(0 - n)
    ELSE IF n < 10 THEN <<Digits[n + 1]>>
    ELSE FormatInt(n \div 10) \o <<Digits[(n % 10) + 1]>>

(***************************************************************************)
(* _get_p_number and _strip_p_num_slashes                                  *)
(***************************************************************************)
\* A faulty variant of _get_p_number: the segments are counted and one is added.
get_p_number_plus_one(path, dir) ==
    IF path # <<>> /\ StartsWith(dir, path) THEN Count(path, "/") + 2 ELSE -1

\* A faulty variant of _get_p_number: base_path has to end where a segment of
\* base_dir ends.
get_p_number_whole_segments(path, dir) ==
    IF /\ path # <<>>
       /\ StartsWith(dir, path)
       /\ (Len(dir) = Len(path) \/ dir[Len(path) + 1] = "/" \/ path[Len(path)] = "/")
    THEN Count(path, "/") + 1
    ELSE -1

\* A faulty variant of _get_p_number: base_dir is not compared with base_path.
get_p_number_any_dir(path, dir) ==
    IF path # <<>> THEN Count(path, "/") + 1 ELSE -1

\* _get_p_number(base_path, base_dir); -1 means "pass no -p".
_get_p_number(path, dir) ==
    IF path # <<>> /\ StartsWith(dir, path) THEN Count(path, "/") + 1 ELSE -1

\* The regular expression [^/]*/+ matched at the 0-based position i of f:
\* the position after the longest match, or -1 when there is no match at i.
\* [^/]* takes every character up to the next '/', /+ the whole run of '/'.
RunEnd(f, i) ==
    CHOOSE j \in i..Len(f) :
        /\ \A k \in (i + 1)..j : f[k] = "/"
        /\ (j = Len(f) \/ f[j + 1] # "/")

MatchEnd(f, i) ==
    IF \E k \in (i + 1)..Len(f) : f[k] = "/"
    THEN LET slash == CHOOSE k \in (i + 1)..Len(f) :
                         /\ f[k] = "/"
                         /\ \A m \in (i + 1)..(k - 1) : f[m] # "/"
         IN RunEnd(f, slash - 1)
    ELSE -1

\* regex.search from position pos: the leftmost position with a match, or -1.
Search(f, pos) ==
    IF \E i \in pos..Len(f) : MatchEnd(f, i) # -1
    THEN CHOOSE i \in pos..Len(f) :
             /\ MatchEnd(f, i) # -1
             /\ \A k \in pos..(i - 1) : MatchEnd(f, k) = -1
    ELSE -1

\* regex.sub('', f, count) from position pos with `left` replacements left
\* (left = -1: no limit): the text between the matches is kept.
RECURSIVE SubFrom(_, _, _)
SubFrom(f, pos, left) ==
    LET start == Search(f, pos)
    IN IF left = 0 \/ start = -1 THEN From(f, pos)
       ELSE SubSeq(f, pos + 1, start)
            \o SubFrom(f, MatchEnd(f, start), IF left = -1 THEN -1 ELSE left - 1)

\* regex.sub('', f, count): count = 0 replaces every match.
Sub(f, count) == SubFrom(f, 0, IF count = 0 THEN -1 ELSE count)

\* A faulty variant of _strip_p_num_slashes: a filename with fewer than p_num
\* runs of '/' is left as it is.
strip_p_num_slashes_strict(files, p_num) ==
    IF p_num > 0
    THEN [i \in 1..Len(files) |->
            IF Cardinality({k \in 1..Len(files[i]) :
                               /\ files[i][k] = "/"
                               /\ (k = 1 \/ files[i][k - 1] # "/")}) >= p_num
            THEN Sub(files[i], p_num)
            ELSE files[i]]
    ELSE files

\* A faulty variant of _strip_p_num_slashes: the guard is p_num >= 0.
strip_p_num_slashes_ge(files, p_num) ==
    IF p_num >= 0 THEN [i \in 1..Len(files) |-> Sub(files[i], p_num)]
    ELSE files

\* A faulty variant of _strip_p_num_slashes: the pattern is [^/]*/ (one '/' only).
RECURSIVE DropOneSlash(_, _)
DropOneSlash(f, left) ==
    IF left = 0 \/ ~(\E k \in 1..Len(f) : f[k] = "/") THEN f
    ELSE DropOneSlash(From(f, CHOOSE k \in 1..Len(f) :
                                  f[k] = "/" /\ \A m \in 1..(k - 1) : f[m] # "/"),
                      left - 1)

strip_p_num_slashes_single(files, p_num) ==
    IF p_num > 0 THEN [i \in 1..Len(files) |-> DropOneSlash(files[i], p_num)]
    ELSE files

\* _strip_p_num_slashes(files, p_num)
_strip_p_num_slashes(files, p_num) ==
    IF p_num > 0 THEN [i \in 1..Len(files) |-> Sub(files[i], p_num)]
    ELSE files

(***************************************************************************)
(* Inputs of the two path functions                                        *)
(***************************************************************************)
PathChars == {"a", "/"}

\* The paths of the documented example: 'a/b' and 'a/b/c'.
ExampleBasePath == <<"a", "/", "b">>
ExampleBaseDir == <<"a", "/", "b", "/", "c">>

\* 'a/b/' (a trailing '/') and 'a/bc' ('a/b' goes on inside a segment).
ExampleBasePathSlash == <<"a", "/", "b", "/">>
ExampleBaseDirInside == <<"a", "/", "b", "c">>

BasePaths == SeqsUpTo(PathChars, MaxPathLen) \cup {ExampleBasePath, ExampleBasePathSlash}
BaseDirs == SeqsUpTo(PathChars, MaxPathLen) \cup {ExampleBaseDir, ExampleBaseDirInside}

\* The filenames of the documented examples: 'x//y/z' and 'a//b/c'.
ExampleXYZ == <<"x", "/", "/", "y", "/", "z">>
ExampleABC == <<"a", "/", "/", "b", "/", "c">>

Filenames == SeqsUpTo(PathChars, MaxNameLen) \cup {ExampleXYZ, ExampleABC}

\* apply_patch has not ended yet.
Pending == [kind |-> "pending", applied |-> FALSE, patch_output |-> <<>>,
            error_cmd |-> <<>>, error_output |-> <<>>]

IdlePNum == [base_path |-> <<>>, base_dir |-> <<>>, called |-> FALSE, result |-> 0]
IdleStrip == [orig |-> <<>>, files |-> <<>>, p_num |-> 0, out |-> <<>>, p_nums |-> <<>>]

\* No call has been made on the client.
NoCall == [op |-> "none", expect_checked |-> FALSE, is_setup_before |-> FALSE,
           has_deps_before |-> "None", check_before |-> "none",
           failed_before |-> FALSE,
           checked |-> FALSE, warned |-> FALSE, raised |-> "", ret |-> ""]

\* The client as __init__ leaves it.
NewClient ==
    /\ is_setup = FALSE
    /\ _has_deps = "None"
    /\ last_check = "none"
    /\ setup_failed = FALSE
    /\ ncalls = 0
    /\ last = NoCall

IdleRev == [tokens |-> <<>>, status |-> <<>>, called |-> FALSE,
            raised |-> "", base |-> <<>>, tip |-> <<>>]

\* No diff has been synthesized.
IdleSynth == [files |-> <<>>, moved_files |-> FALSE, called |-> FALSE, diff |-> <<>>]

\* get_commit_message has not been called.
IdleMsg == [raw |-> <<>>, called |-> FALSE, returned |-> "",
            summary |-> <<>>, description |-> <<>>]

\* No close_review_request call has been made.
IdleHook == [status |-> "pending", description |-> <<>>, ncalls |-> 0,
             status_before |-> "", description_before |-> <<>>,
             arg |-> None, fetched |-> FALSE, warned |-> FALSE,
             updates |-> <<>>, raised |-> "", closed_before |-> FALSE]

IdleLate ==
    /\ synth = IdleSynth
    /\ msg = IdleMsg
    /\ hook = IdleHook

IdleApply ==
    /\ pc = "idle"
    /\ base_path = <<>>
    /\ base_dir = <<>>
    /\ p = None
    /\ revert = FALSE
    /\ supports_empty = FALSE
    /\ cmd = <<>>
    /\ proc_rc = 0
    /\ proc_out = <<>>
    /\ calls = <<>>
    /\ outcome = Pending

(***************************************************************************)
(* SpecPNumber: one call of _get_p_number on any pair of paths             *)
(***************************************************************************)
InitPNumber ==
    /\ IdleApply
    /\ NewClient
    /\ revspec = IdleRev
    /\ IdleLate
    /\ strip = IdleStrip
    /\ pnum \in {[base_path |-> bp, base_dir |-> bd, called |-> FALSE, result |-> 0] :
                    bp \in BasePaths, bd \in BaseDirs}

GetPNumber ==
    /\ ~pnum.called
    /\ pnum' = [pnum EXCEPT !.called = TRUE,
                            !.result = _get_p_number(pnum.base_path, pnum.base_dir)]
    /\ UNCHANGED <<varsApply, strip, varsClient, revspec, varsLate>>

NextPNumber == GetPNumber

SpecPNumber == InitPNumber /\ [][NextPNumber]_vars

(***************************************************************************)
(* SpecStrip: successive calls of _strip_p_num_slashes, each on the list   *)
(* the previous call returned                                              *)
(***************************************************************************)
\* Lists of no, one and two filenames.
FileLists ==
    {<<>>} \cup {<<f>> : f \in Filenames} \cup {<<f, g>> : f, g \in Filenames}

InitStrip ==
    /\ IdleApply
    /\ NewClient
    /\ revspec = IdleRev
    /\ IdleLate
    /\ pnum = IdlePNum
    /\ strip \in {[orig |-> fs, files |-> fs, p_num |-> 0, out |-> fs, p_nums |-> <<>>] :
                     fs \in FileLists}

\* out = _strip_p_num_slashes(files, p_num) is the last call; p_nums lists
\* the p_num of every call so far.
StripCall(n) ==
    /\ Len(strip.p_nums) < MaxStripCalls
    /\ strip' = [strip EXCEPT !.files = strip.out,
                              !.p_num = n,
                              !.out = _strip_p_num_slashes(strip.out, n),
                              !.p_nums = Append(strip.p_nums, n)]
    /\ UNCHANGED <<varsApply, pnum, varsClient, revspec, varsLate>>

NextStrip == \E n \in -1..MaxStrip : StripCall(n)

SpecStrip == InitStrip /\ [][NextStrip]_vars

(***************************************************************************)
(* apply_patch                                                             *)
(***************************************************************************)
\* The pieces the output of the patch command is made of.
FatalPreamble == "patch: **** "
OnlyGarbageRest == "Only garbage was found in the patch input.\n"
OtherText == "Hunk #1 FAILED at 1.\n"

\* only_garbage_in_patch
only_garbage_in_patch == <<FatalPreamble, OnlyGarbageRest>>

\* extra_ignore_errors=(2,)
extra_ignore_errors == {2}

\* How apply_patch ends: with a PatchResult, with SCMError raised, or with
\* the bare `return` (None).
PatchResult(applied, patch_output) ==
    [kind |-> "PatchResult", applied |-> applied, patch_output |-> patch_output,
     error_cmd |-> <<>>, error_output |-> <<>>]

\* SCMError('Failed to execute command: %s\n%s' % (cmd, patch_output))
SCMError(command, patch_output) ==
    [kind |-> "SCMError", applied |-> FALSE, patch_output |-> <<>>,
     error_cmd |-> command, error_output |-> patch_output]

ReturnNone ==
    [kind |-> "None", applied |-> FALSE, patch_output |-> <<>>,
     error_cmd |-> <<>>, error_output |-> <<>>]

\* execute(cmd, extra_ignore_errors=(2,), return_error_code=True) on a process
\* that exits with rc and prints out.  Exit code 0 and the ignored codes are
\* returned with the output.  Any other exit code is fatal; whether execute
\* itself ends the call with the error (fatal_in_execute) or hands (rc, out)
\* back for the caller to classify is left open, and both are modelled.
execute(rc, out, ignored, fatal_in_execute) ==
    [raised |-> rc # 0 /\ rc \notin ignored /\ fatal_in_execute,
     rc |-> rc,
     output |-> out]

\* p_num = p or self._get_p_number(base_path, base_dir), then int(p_num),
\* 0 on ValueError.
EffectiveP(pv, path, dir) ==
    LET chosen == Or(pv, PyInt(_get_p_number(path, dir)))
        parsed == int(chosen)
    IN IF parsed.ok THEN parsed.val ELSE 0

\* cmd: 'patch', '-R' if revert, '-p%d' if p_num >= 0, '-i', patch_file.
\* Each argument is a sequence of pieces.
BuildCmd(patch_file, p_num, rev) ==
    <<<<"patch">>>>
    \o (IF rev THEN <<<<"-R">>>> ELSE <<>>)
    \o (IF p_num >= 0 THEN <<<<"-p">> \o FormatInt(p_num)>> ELSE <<>>)
    \o <<<<"-i">>, patch_file>>

\* A faulty variant of IsFatalOutput: an only-garbage prefix is enough to pass.
IsFatalOutputPrefix(patch_output) ==
    /\ patch_output # <<>>
    /\ StartsWith(patch_output, <<FatalPreamble>>)
    /\ ~StartsWith(patch_output, only_garbage_in_patch)

\* patch_output and patch_output.startswith('patch: **** ') and
\* patch_output != only_garbage_in_patch
IsFatalOutput(patch_output) ==
    /\ patch_output # <<>>
    /\ StartsWith(patch_output, <<FatalPreamble>>)
    /\ patch_output # only_garbage_in_patch

\* A faulty variant of GarbageWithoutEmptyFiles: the result of
\* apply_patch_for_empty_files is not looked at.
GarbageWithoutEmptyFilesAlways(patch_output, patched_empty_files) ==
    patch_output = only_garbage_in_patch /\ patched_empty_files

\* patch_output == only_garbage_in_patch and not patched_empty_files
GarbageWithoutEmptyFiles(patch_output, patched_empty_files) ==
    patch_output = only_garbage_in_patch /\ ~patched_empty_files

\* A faulty variant of FinalResult: applied also for the ignored exit codes.
FinalResultIgnored(rc, patch_output) ==
    PatchResult(rc = 0 \/ rc \in extra_ignore_errors, patch_output)

\* PatchResult(applied=(rc == 0), patch_output=patch_output)
FinalResult(rc, patch_output) == PatchResult(rc = 0, patch_output)

Call(fn, ok) == [fn |-> fn, ok |-> ok]

\* A faulty variant of apply_patch: supports_empty_files() is not asked, the
\* empty-file step is always taken.
apply_patch_ungated(patch_file, path, dir, pv, rev, supports, env) ==
    LET p_num == EffectiveP(pv, path, dir)
        command == BuildCmd(patch_file, p_num, rev)
        ran == execute(env.rc, env.out, extra_ignore_errors, env.fatal_in_execute)
        executed == <<Call("execute", ~ran.raised)>>
        opened == executed \o <<Call("open", env.readable)>>
        emptied == opened \o <<Call("apply_patch_for_empty_files",
                                    env.patched_empty_files)>>
    IN IF ran.raised \/ IsFatalOutput(ran.output)
       THEN [cmd |-> command, calls |-> executed,
             outcome |-> SCMError(command, ran.output)]
       ELSE IF ~env.readable
       THEN [cmd |-> command, calls |-> opened, outcome |-> ReturnNone]
       ELSE IF GarbageWithoutEmptyFiles(ran.output, env.patched_empty_files)
       THEN [cmd |-> command, calls |-> emptied,
             outcome |-> SCMError(command, ran.output)]
       ELSE [cmd |-> command, calls |-> emptied,
             outcome |-> FinalResult(ran.rc, ran.output)]

\* A faulty variant of apply_patch: the patch file is read and the empty
\* files are applied before the output is classified.
apply_patch_late_fatal(patch_file, path, dir, pv, rev, supports, env) ==
    LET p_num == EffectiveP(pv, path, dir)
        command == BuildCmd(patch_file, p_num, rev)
        ran == execute(env.rc, env.out, extra_ignore_errors, env.fatal_in_execute)
        executed == <<Call("execute", ~ran.raised)>>
        opened == executed \o <<Call("open", env.readable)>>
        emptied == opened \o <<Call("apply_patch_for_empty_files",
                                    env.patched_empty_files)>>
        after == IF ~supports THEN executed
                 ELSE IF ~env.readable THEN opened ELSE emptied
    IN IF ran.raised
       THEN [cmd |-> command, calls |-> executed,
             outcome |-> SCMError(command, ran.output)]
       ELSE IF supports /\ ~env.readable
       THEN [cmd |-> command, calls |-> opened, outcome |-> ReturnNone]
       ELSE IF IsFatalOutput(ran.output)
               \/ (supports /\ GarbageWithoutEmptyFiles(ran.output,
                                                        env.patched_empty_files))
       THEN [cmd |-> command, calls |-> after,
             outcome |-> SCMError(command, ran.output)]
       ELSE [cmd |-> command, calls |-> after,
             outcome |-> FinalResult(ran.rc, ran.output)]

\* apply_patch(patch_file, base_path, base_dir, p, revert) of a backend whose
\* supports_empty_files() returns `supports`, in an environment env:
\*   env.rc, env.out          exit code and output of the patch process
\*   env.fatal_in_execute     see execute
\*   env.readable             open(patch_file, 'rb') succeeds (no IOError)
\*   env.patched_empty_files  what apply_patch_for_empty_files returns
\* The result is the command, the collaborators called and the outcome.
apply_patch(patch_file, path, dir, pv, rev, supports, env) ==
    LET p_num == EffectiveP(pv, path, dir)
        command == BuildCmd(patch_file, p_num, rev)
        ran == execute(env.rc, env.out, extra_ignore_errors, env.fatal_in_execute)
        executed == <<Call("execute", ~ran.raised)>>
        opened == executed \o <<Call("open", env.readable)>>
        emptied == opened \o <<Call("apply_patch_for_empty_files",
                                    env.patched_empty_files)>>
    IN IF ran.raised
       THEN [cmd |-> command, calls |-> executed,
             outcome |-> SCMError(command, ran.output)]
       ELSE IF IsFatalOutput(ran.output)
       THEN [cmd |-> command, calls |-> executed,
             outcome |-> SCMError(command, ran.output)]
       ELSE IF ~supports
       THEN [cmd |-> command, calls |-> executed,
             outcome |-> FinalResult(ran.rc, ran.output)]
       ELSE IF ~env.readable
       THEN [cmd |-> command, calls |-> opened, outcome |-> ReturnNone]
       ELSE IF GarbageWithoutEmptyFiles(ran.output, env.patched_empty_files)
       THEN [cmd |-> command, calls |-> emptied,
             outcome |-> SCMError(command, ran.output)]
       ELSE [cmd |-> command, calls |-> emptied,
             outcome |-> FinalResult(ran.rc, ran.output)]

(***************************************************************************)
(* Spec: one apply_patch call, on any arguments, backend and environment   *)
(***************************************************************************)
PatchFile == <<"d", "i", "f", "f">>

ArgPaths == SeqsUpTo(PathChars, MaxArgPathLen)

\* None, ints from -1, their decimal strings, and strings that are empty,
\* no number, or a number with a leading zero.
PValues ==
    {None}
    \cup {PyInt(n) : n \in -1..MaxP}
    \cup {PyStr(FormatInt(n)) : n \in -1..MaxP}
    \cup {PyStr(<<>>), PyStr(<<"x">>), PyStr(<<"0", "1">>)}

ExitCodes == 0..MaxExitCode

Outputs ==
    { <<>>,
      <<OtherText>>,
      <<FatalPreamble, OtherText>>,
      only_garbage_in_patch,
      only_garbage_in_patch \o <<OtherText>>,
      <<OtherText>> \o only_garbage_in_patch }

Init ==
    /\ pc = "call"
    /\ base_path \in ArgPaths
    /\ base_dir \in ArgPaths
    /\ p \in PValues
    /\ revert \in BOOLEAN
    /\ supports_empty \in BOOLEAN
    /\ cmd = <<>>
    /\ proc_rc = 0
    /\ proc_out = <<>>
    /\ calls = <<>>
    /\ outcome = Pending
    /\ pnum = IdlePNum
    /\ strip = IdleStrip
    /\ NewClient
    /\ revspec = IdleRev
    /\ IdleLate

ApplyPatch(env) ==
    /\ pc = "call"
    /\ LET r == apply_patch(PatchFile, base_path, base_dir, p, revert,
                            supports_empty, env)
       IN /\ cmd' = r.cmd
          /\ calls' = r.calls
          /\ outcome' = r.outcome
    /\ proc_rc' = env.rc
    /\ proc_out' = env.out
    /\ pc' = "done"
    /\ UNCHANGED <<base_path, base_dir, p, revert, supports_empty, pnum, strip,
                   varsClient, revspec, varsLate>>

Environments ==
    [rc : ExitCodes, out : Outputs, fatal_in_execute : BOOLEAN,
     readable : BOOLEAN, patched_empty_files : BOOLEAN]

Next == \E env \in Environments : ApplyPatch(env)

Spec == Init /\ [][Next]_vars

(***************************************************************************)
(* The client lifecycle: setup, has_dependencies and the base operations   *)
(***************************************************************************)
MaxClientCalls == 3   \* calls made on one client

\* setup() on a client in state st = [is_setup, has_deps]; deps_ok tells
\* whether check_dependencies() returns (TRUE) or raises
\* SCMClientDependencyError (FALSE).  checked: check_dependencies was invoked.

\* A faulty variant of setup: every call checks, and a failed check clears
\* is_setup.
setup_cleared_on_failure(st, deps_ok) ==
    IF deps_ok
    THEN [is_setup |-> TRUE, has_deps |-> "True", checked |-> TRUE, raised |-> ""]
    ELSE [is_setup |-> FALSE, has_deps |-> "False", checked |-> TRUE,
          raised |-> "SCMClientDependencyError"]

\* A faulty variant of setup: no early return when is_setup is already True.
setup_always_checks(st, deps_ok) ==
    IF deps_ok
    THEN [is_setup |-> TRUE, has_deps |-> "True", checked |-> TRUE, raised |-> ""]
    ELSE [is_setup |-> st.is_setup, has_deps |-> "False", checked |-> TRUE,
          raised |-> "SCMClientDependencyError"]

\* A faulty variant of setup: is_setup is set although the check raised.
setup_ready_on_failure(st, deps_ok) ==
    IF st.is_setup
    THEN [is_setup |-> TRUE, has_deps |-> st.has_deps, checked |-> FALSE, raised |-> ""]
    ELSE IF deps_ok
    THEN [is_setup |-> TRUE, has_deps |-> "True", checked |-> TRUE, raised |-> ""]
    ELSE [is_setup |-> TRUE, has_deps |-> "False", checked |-> TRUE,
          raised |-> "SCMClientDependencyError"]

\* A faulty variant of setup: a failed check is not recorded in _has_deps.
setup_failure_not_recorded(st, deps_ok) ==
    IF st.is_setup
    THEN [is_setup |-> TRUE, has_deps |-> st.has_deps, checked |-> FALSE, raised |-> ""]
    ELSE IF deps_ok
    THEN [is_setup |-> TRUE, has_deps |-> "True", checked |-> TRUE, raised |-> ""]
    ELSE [is_setup |-> st.is_setup, has_deps |-> st.has_deps, checked |-> TRUE,
          raised |-> "SCMClientDependencyError"]

\* setup()
setup(st, deps_ok) ==
    IF st.is_setup
    THEN [is_setup |-> TRUE, has_deps |-> st.has_deps, checked |-> FALSE, raised |-> ""]
    ELSE IF deps_ok
    THEN [is_setup |-> TRUE, has_deps |-> "True", checked |-> TRUE, raised |-> ""]
    ELSE [is_setup |-> st.is_setup, has_deps |-> "False", checked |-> TRUE,
          raised |-> "SCMClientDependencyError"]

\* A faulty variant of has_dependencies: setup() is called whatever
\* _has_deps holds.
has_dependencies_always_setup(st, expect_checked, deps_ok) ==
    LET r == setup(st, deps_ok)
    IN [is_setup |-> r.is_setup, has_deps |-> r.has_deps, checked |-> r.checked,
        warned |-> expect_checked /\ st.has_deps = "None", raised |-> "",
        ret |-> r.has_deps]

\* has_dependencies(expect_checked): the warning is RemovedInRBTools50Warning;
\* SCMClientDependencyError from setup() is swallowed; the value returned is
\* self._has_deps.
has_dependencies(st, expect_checked, deps_ok) ==
    IF st.has_deps = "None"
    THEN LET r == setup(st, deps_ok)
         IN [is_setup |-> r.is_setup, has_deps |-> r.has_deps, checked |-> r.checked,
             warned |-> expect_checked, raised |-> "", ret |-> r.has_deps]
    ELSE [is_setup |-> st.is_setup, has_deps |-> st.has_deps, checked |-> FALSE,
          warned |-> FALSE, raised |-> "", ret |-> st.has_deps]

\* supports_empty_files() of the base class
supports_empty_files == FALSE

\* The operations of the base class other than setup, has_dependencies and
\* apply_patch.
RaisingOperations ==
    {"get_commit_history", "has_pending_changes", "create_commit",
     "get_commit_message", "delete_branch", "merge", "push_upstream",
     "get_raw_commit_message", "get_current_branch",
     "apply_patch_for_empty_files", "amend_commit_description"}

BaseOperations ==
    RaisingOperations
    \cup {"is_remote_only", "get_local_path", "get_repository_info",
          "find_matching_server_repository", "get_repository_name",
          "check_options", "get_changenum", "scan_for_server",
          "parse_revision_spec", "get_tree_matches_review_request", "diff",
          "supports_empty_files"}

\* A faulty variant of BaseOperation: has_pending_changes answers False.
BaseOperationPendingFalse(op) ==
    IF op = "has_pending_changes" THEN [raised |-> "", ret |-> "False"]
    ELSE IF op \in RaisingOperations
    THEN [raised |-> "NotImplementedError", ret |-> ""]
    ELSE [raised |-> "", ret |-> "None"]

\* What the base class does when op is called and no backend overrides it:
\* the exception raised ("" if none) and the value returned.
\* get_commit_message raises through get_raw_commit_message; get_local_path
\* returns `info and info.local_path` with info = get_repository_info() = None.
BaseOperation(op) ==
    IF op \in RaisingOperations
    THEN [raised |-> "NotImplementedError", ret |-> ""]
    ELSE [raised |-> "",
          ret |-> CASE op \in {"is_remote_only", "supports_empty_files"} -> "False"
                    [] op = "find_matching_server_repository" -> "(None, None)"
                    [] op = "parse_revision_spec" -> "{base: None, tip: None}"
                    [] op = "diff" ->
                         "{diff: None, parent_diff: None, commit_id: None, base_commit_id: None, review_request_extra_data: None}"
                    [] OTHER -> "None"]

(***************************************************************************)
(* SpecClient: a new client and up to MaxClientCalls calls on it           *)
(***************************************************************************)
InitClient ==
    /\ IdleApply
    /\ NewClient
    /\ pnum = IdlePNum
    /\ strip = IdleStrip
    /\ revspec = IdleRev
    /\ IdleLate

ClientState == [is_setup |-> is_setup, has_deps |-> _has_deps]

Before(op, expect_checked) ==
    [NoCall EXCEPT !.op = op,
                   !.expect_checked = expect_checked,
                   !.is_setup_before = is_setup,
                   !.has_deps_before = _has_deps,
                   !.check_before = last_check,
                   !.failed_before = setup_failed]

Setup(deps_ok) ==
    /\ ncalls < MaxClientCalls
    /\ LET r == setup(ClientState, deps_ok)
       IN /\ is_setup' = r.is_setup
          /\ _has_deps' = r.has_deps
          /\ last_check' = IF r.checked
                           THEN (IF deps_ok THEN "passed" ELSE "failed")
                           ELSE last_check
          /\ setup_failed' = (setup_failed \/ r.raised # "")
          /\ last' = [Before("setup", FALSE) EXCEPT !.checked = r.checked,
                                                    !.raised = r.raised]
    /\ ncalls' = ncalls + 1
    /\ UNCHANGED <<varsApply, pnum, strip, revspec, varsLate>>

HasDependencies(expect_checked, deps_ok) ==
    /\ ncalls < MaxClientCalls
    /\ LET r == has_dependencies(ClientState, expect_checked, deps_ok)
       IN /\ is_setup' = r.is_setup
          /\ _has_deps' = r.has_deps
          /\ last_check' = IF r.checked
                           THEN (IF deps_ok THEN "passed" ELSE "failed")
                           ELSE last_check
          /\ last' = [Before("has_dependencies", expect_checked)
                         EXCEPT !.checked = r.checked,
                                !.warned = r.warned,
                                !.raised = r.raised,
                                !.ret = r.ret]
    /\ ncalls' = ncalls + 1
    /\ UNCHANGED <<varsApply, pnum, strip, revspec, varsLate, setup_failed>>

\* An operation of the base class that no backend overrides.
CallOperation(op) ==
    /\ ncalls < MaxClientCalls
    /\ LET r == BaseOperation(op)
       IN last' = [Before(op, FALSE) EXCEPT !.raised = r.raised, !.ret = r.ret]
    /\ ncalls' = ncalls + 1
    /\ UNCHANGED <<varsApply, pnum, strip, revspec, varsLate, is_setup, _has_deps,
                   last_check, setup_failed>>

\* apply_patch of the base class, on the arguments ('diff', '', '', None, False).
ClientApplyPatch(env) ==
    /\ ncalls < MaxClientCalls
    /\ LET r == apply_patch(PatchFile, base_path, base_dir, p, revert,
                            supports_empty_files, env)
       IN /\ cmd' = r.cmd
          /\ calls' = r.calls
          /\ outcome' = r.outcome
          /\ last' = [Before("apply_patch", FALSE)
                         EXCEPT !.raised = IF r.outcome.kind = "SCMError"
                                           THEN "SCMError" ELSE "",
                                !.ret = IF r.outcome.kind = "SCMError"
                                        THEN "" ELSE r.outcome.kind]
    /\ proc_rc' = env.rc
    /\ proc_out' = env.out
    /\ pc' = "done"
    /\ ncalls' = ncalls + 1
    /\ UNCHANGED <<base_path, base_dir, p, revert, supports_empty, pnum, strip,
                   revspec, varsLate, is_setup, _has_deps, last_check, setup_failed>>

\* The base class never opens the patch file nor applies empty files
\* (supports_empty_files() is False), so one value of each answer is enough.
BaseEnvironments ==
    {env \in Environments : env.readable /\ env.patched_empty_files}

NextClient ==
    \/ \E deps_ok \in BOOLEAN : Setup(deps_ok)
    \/ \E expect_checked \in BOOLEAN, deps_ok \in BOOLEAN :
           HasDependencies(expect_checked, deps_ok)
    \/ \E op \in BaseOperations : CallOperation(op)
    \/ \E env \in BaseEnvironments : ClientApplyPatch(env)

SpecClient == InitClient /\ [][NextClient]_vars

(***************************************************************************)
(* PerforceClient.parse_revision_spec (RevisionResolver)                   *)
(***************************************************************************)
\* Longest list of revision tokens handed to parse_revision_spec.
MaxTokens == 3

\* The two sentinels of PerforceClient, each one opaque piece of text.
REVISION_CURRENT_SYNC == "REVISION_CURRENT_SYNC"
REVISION_PENDING_CLN_PREFIX == "REVISION_PENDING_CLN_PREFIX"

\* Changelist tokens: '2', '9' and '10' (whose numeric and textual orders
\* differ) and 'x', which names no changelist.
Changelists == {<<"2">>, <<"9">>, <<"1", "0">>}
Tokens == Changelists \cup {<<"x">>}

\* What the server answers for a changelist: its Status, or "none" when it
\* reports no matching changelist.
Statuses == {"pending", "shelved", "submitted", "none"}
ChangeMaps == {m \in [Tokens -> Statuses] : m[<<"x">>] = "none"}

RevisionLists == UNION {[1..n -> Tokens] : n \in 0..MaxTokens}

RevisionResult(base, tip) == [raised |-> "", base |-> base, tip |-> tip]
RevisionError(name) == [raised |-> name, base |-> <<>>, tip |-> <<>>]

\* s < t in the order of Python's str comparison (digits only).
RECURSIVE TextLess(_, _)
TextLess(s, t) ==
    IF t = <<>> THEN FALSE
    ELSE IF s = <<>> THEN TRUE
    ELSE IF s[1] # t[1] THEN DigitValue(s[1]) < DigitValue(t[1])
    ELSE TextLess(Tail(s), Tail(t))

\* A faulty variant: a shelved changelist is handled like a submitted one.
parse_revision_spec_shelved_as_submitted(revisions, change) ==
    IF Len(revisions) = 1 /\ change[revisions[1]] = "shelved"
    THEN RevisionResult(FormatInt(DecimalValue(revisions[1]) - 1), revisions[1])
    ELSE IF Len(revisions) = 1 /\ change[revisions[1]] = "pending"
    THEN RevisionResult(<<REVISION_CURRENT_SYNC>>,
                        <<REVISION_PENDING_CLN_PREFIX>> \o revisions[1])
    ELSE RevisionError("InvalidRevisionSpecError")

\* A faulty variant: the base of a submitted changelist is the changelist.
parse_revision_spec_base_is_tip(revisions, change) ==
    IF Len(revisions) = 1 /\ change[revisions[1]] = "submitted"
    THEN RevisionResult(revisions[1], revisions[1])
    ELSE RevisionError("InvalidRevisionSpecError")

\* A faulty variant: two tokens are compared as text.
parse_revision_spec_text_order(revisions, change) ==
    IF Len(revisions) = 2
       /\ change[revisions[1]] = "submitted"
       /\ change[revisions[2]] = "submitted"
       /\ ~TextLess(revisions[2], revisions[1])
    THEN RevisionResult(revisions[1], revisions[2])
    ELSE RevisionError("InvalidRevisionSpecError")

\* A faulty variant: every token is resolved before the tokens are counted.
parse_revision_spec_resolves_first(revisions, change) ==
    IF \E i \in 1..Len(revisions) : change[revisions[i]] = "none"
    THEN RevisionError("InvalidRevisionSpecError")
    ELSE IF Len(revisions) > 2 THEN RevisionError("TooManyRevisionsError")
    ELSE RevisionError("InvalidRevisionSpecError")

\* parse_revision_spec(revisions), with `change` the server's answer for
\* each token.
parse_revision_spec(revisions, change) ==
    LET n == Len(revisions) IN
    IF n = 0
    THEN RevisionResult(<<REVISION_CURRENT_SYNC>>,
                        <<REVISION_PENDING_CLN_PREFIX>>
                            \o <<"d", "e", "f", "a", "u", "l", "t">>)
    ELSE IF n = 1
    THEN LET status == change[revisions[1]] IN
         IF status \in {"pending", "shelved"}
         THEN RevisionResult(<<REVISION_CURRENT_SYNC>>,
                             <<REVISION_PENDING_CLN_PREFIX>> \o revisions[1])
         ELSE IF status = "submitted"
         THEN RevisionResult(FormatInt(int(PyStr(revisions[1])).val - 1),
                             revisions[1])
         ELSE RevisionError("InvalidRevisionSpecError")
    ELSE IF n = 2
    THEN IF change[revisions[1]] # "submitted"
         THEN RevisionError("InvalidRevisionSpecError")
         ELSE IF change[revisions[2]] # "submitted"
         THEN RevisionError("InvalidRevisionSpecError")
         ELSE IF int(PyStr(revisions[1])).val > int(PyStr(revisions[2])).val
         THEN RevisionError("InvalidRevisionSpecError")
         ELSE RevisionResult(revisions[1], revisions[2])
    ELSE RevisionError("TooManyRevisionsError")

InitRevisions ==
    /\ IdleApply
    /\ pnum = IdlePNum
    /\ strip = IdleStrip
    /\ NewClient
    /\ IdleLate
    /\ \E revisions \in RevisionLists, change \in ChangeMaps :
          revspec = [tokens |-> revisions, status |-> change, called |-> FALSE,
                     raised |-> "", base |-> <<>>, tip |-> <<>>]

ParseRevisionSpec ==
    /\ ~revspec.called
    /\ LET r == parse_revision_spec(revspec.tokens, revspec.status) IN
       revspec' = [revspec EXCEPT !.called = TRUE, !.raised = r.raised,
                                  !.base = r.base, !.tip = r.tip]
    /\ UNCHANGED <<varsApply, pnum, strip, varsClient, varsLate>>

NextRevisions == ParseRevisionSpec

SpecRevisions == InitRevisions /\ [][NextRevisions]_vars

(***************************************************************************)
(* PerforceClient.diff: synthesis of the diff of a changelist              *)
(***************************************************************************)
\* Longest list of changed files in one changelist.
MaxFiles == 3

DepotPaths == {"A", "B", "C", "D"}

\* fstat's movedFile: the other end of a move.
MovedFile(path) ==
    CASE path = "A" -> "B"
      [] path = "B" -> "A"
      [] path = "C" -> "D"
      [] path = "D" -> "C"

Actions == {"edit", "add", "delete", "move_add", "move_delete"}

\* A changed file; `same` says that a moved file has its old content.
ChangedFileRecords ==
    {r \in [depot_path : DepotPaths, action : Actions, same : BOOLEAN] :
        r.same => r.action = "move_delete"}

\* The opened files of a changelist: every depot path at most once.
ChangedFiles ==
    {files \in UNION {[1..n -> ChangedFileRecords] : n \in 0..MaxFiles} :
        \A i, j \in 1..Len(files) :
            files[i].depot_path = files[j].depot_path => i = j}

\* One line of the diff: its marker and the depot paths it names.
Line(tag, path, to) == [tag |-> tag, path |-> path, to |-> to]

EditFragment(path) ==
    <<Line("---", path, ""), Line("+++", path, ""), Line("@@ -1 +1 @@", "", ""),
      Line("-", path, ""), Line("+", path, "")>>

AddFragment(path) ==
    <<Line("---", path, ""), Line("+++", path, ""), Line("@@ -0,0 +1 @@", "", ""),
      Line("+", path, "")>>

DeleteFragment(path) ==
    <<Line("---", path, ""), Line("+++", path, ""), Line("@@ -1 +0,0 @@", "", ""),
      Line("-", path, "")>>

MovedFragment(path, to, same) ==
    IF same
    THEN <<Line("==MV==", path, to), Line("", "", "")>>
    ELSE <<Line("Moved from", path, ""), Line("Moved to", to, ""),
           Line("---", path, ""), Line("+++", to, ""),
           Line("@@ -1 +1 @@", "", ""), Line("-", path, ""), Line("+", to, "")>>

\* files[i] is the move_delete end of a pair that is in the changelist.
IsMoveSource(files, i) ==
    /\ files[i].action = "move_delete"
    /\ \E j \in 1..Len(files) :
          /\ files[j].action = "move_add"
          /\ files[j].depot_path = MovedFile(files[i].depot_path)

\* files[j] is the move_add end of a pair that is in the changelist.
IsMoveTarget(files, j) ==
    /\ files[j].action = "move_add"
    /\ \E i \in 1..Len(files) :
          /\ files[i].action = "move_delete"
          /\ files[j].depot_path = MovedFile(files[i].depot_path)

\* The fragment of files[i].
Fragment(files, i, moved_files) ==
    LET f == files[i] IN
    IF moved_files /\ IsMoveSource(files, i)
    THEN MovedFragment(f.depot_path, MovedFile(f.depot_path), f.same)
    ELSE IF moved_files /\ IsMoveTarget(files, i) THEN <<>>
    ELSE IF f.action \in {"add", "move_add"} THEN AddFragment(f.depot_path)
    ELSE IF f.action \in {"delete", "move_delete"} THEN DeleteFragment(f.depot_path)
    ELSE EditFragment(f.depot_path)

RECURSIVE FragmentsFrom(_, _, _)
FragmentsFrom(files, i, moved_files) ==
    IF i > Len(files) THEN <<>>
    ELSE Fragment(files, i, moved_files) \o FragmentsFrom(files, i + 1, moved_files)

RECURSIVE MovedFragmentsFrom(_, _)
MovedFragmentsFrom(files, i) ==
    IF i > Len(files) THEN <<>>
    ELSE (IF IsMoveSource(files, i) THEN Fragment(files, i, TRUE) ELSE <<>>)
         \o MovedFragmentsFrom(files, i + 1)

RECURSIVE OtherFragmentsFrom(_, _)
OtherFragmentsFrom(files, i) ==
    IF i > Len(files) THEN <<>>
    ELSE (IF IsMoveSource(files, i) THEN <<>> ELSE Fragment(files, i, TRUE))
         \o OtherFragmentsFrom(files, i + 1)

\* A faulty variant: the server capability is not looked at.
synthesize_moves_always(changed_files, moved_files) ==
    FragmentsFrom(changed_files, 1, TRUE)

\* A faulty variant: the moved files come first, the other files after them.
synthesize_moves_first(changed_files, moved_files) ==
    IF moved_files
    THEN MovedFragmentsFrom(changed_files, 1) \o OtherFragmentsFrom(changed_files, 1)
    ELSE FragmentsFrom(changed_files, 1, FALSE)

\* The diff of the changed files, with `moved_files` the server capability
\* scmtools.perforce.moved_files.
synthesize(changed_files, moved_files) ==
    FragmentsFrom(changed_files, 1, moved_files)

InitSynth ==
    /\ IdleApply
    /\ pnum = IdlePNum
    /\ strip = IdleStrip
    /\ NewClient
    /\ revspec = IdleRev
    /\ msg = IdleMsg
    /\ hook = IdleHook
    /\ \E files \in ChangedFiles, moved_files \in BOOLEAN :
          synth = [files |-> files, moved_files |-> moved_files,
                   called |-> FALSE, diff |-> <<>>]

Synthesize ==
    /\ ~synth.called
    /\ synth' = [synth EXCEPT !.called = TRUE,
                              !.diff = synthesize(synth.files, synth.moved_files)]
    /\ UNCHANGED <<varsApply, pnum, strip, varsClient, revspec, msg, hook>>

NextSynth == Synthesize

SpecSynth == InitSynth /\ [][NextSynth]_vars

(***************************************************************************)
(* get_commit_message                                                      *)
(***************************************************************************)
\* Longest raw commit message.
MaxMsgLen == 5

MsgChars == {"a", " ", "\n"}

RawMessages == SeqsUpTo(MsgChars, MaxMsgLen)

\* str.splitlines() for texts whose only line break is '\n'.
RECURSIVE splitlines(_)
splitlines(text) ==
    IF text = <<>> THEN <<>>
    ELSE IF \A i \in 1..Len(text) : text[i] # "\n" THEN <<text>>
    ELSE LET k == CHOOSE i \in 1..Len(text) :
                     /\ text[i] = "\n"
                     /\ \A j \in 1..(i - 1) : text[j] # "\n"
         IN <<SubSeq(text, 1, k - 1)>> \o splitlines(SubSeq(text, k + 1, Len(text)))

\* '\n'.join(lines)
RECURSIVE join(_)
join(lines) ==
    IF lines = <<>> THEN <<>>
    ELSE IF Len(lines) = 1 THEN lines[1]
    ELSE lines[1] \o <<"\n">> \o join(Tail(lines))

IsSpace(c) == c \in {" ", "\n"}

\* str.strip()
RECURSIVE strip_text(_)
strip_text(text) ==
    IF text = <<>> THEN <<>>
    ELSE IF IsSpace(text[1]) THEN strip_text(Tail(text))
    ELSE IF IsSpace(text[Len(text)]) THEN strip_text(SubSeq(text, 1, Len(text) - 1))
    ELSE text

\* get_commit_message, with commit_message what get_raw_commit_message
\* returned.
get_commit_message(commit_message) ==
    LET lines == splitlines(commit_message) IN
    IF lines = <<>>
    THEN [returned |-> "None", summary |-> <<>>, description |-> <<>>]
    ELSE [returned |-> "dict",
          summary |-> lines[1],
          description |->
              IF Len(lines) >= 3 /\ lines[1] # <<>> /\ lines[2] = <<>>
              THEN strip_text(join(SubSeq(lines, 3, Len(lines))))
              ELSE commit_message]

InitMsg ==
    /\ IdleApply
    /\ pnum = IdlePNum
    /\ strip = IdleStrip
    /\ NewClient
    /\ revspec = IdleRev
    /\ synth = IdleSynth
    /\ hook = IdleHook
    /\ \E raw \in RawMessages :
          msg = [raw |-> raw, called |-> FALSE, returned |-> "",
                 summary |-> <<>>, description |-> <<>>]

GetCommitMessage ==
    /\ ~msg.called
    /\ LET r == get_commit_message(msg.raw) IN
       msg' = [msg EXCEPT !.called = TRUE, !.returned = r.returned,
                          !.summary = r.summary, !.description = r.description]
    /\ UNCHANGED <<varsApply, pnum, strip, varsClient, revspec, synth, hook>>

NextMsg == GetCommitMessage

SpecMsg == InitMsg /\ [][NextMsg]_vars

(***************************************************************************)
(* close_review_request (repository hooks)                                 *)
(***************************************************************************)
\* close_review_request calls made on one review request.
MaxHookCalls == 3

SUBMITTED == "submitted"

ReviewRequestStatuses == {"pending", "discarded", SUBMITTED}

\* The description argument: None, '' or a text.
Descriptions == {None, PyStr(<<>>), PyStr(<<"d">>)}

\* What the server may do during one call: answer get_root (root_ok), answer
\* get_review_request (fetch_ok), accept the update (update_ok).
HookEnvironments == [root_ok : BOOLEAN, fetch_ok : BOOLEAN, update_ok : BOOLEAN]

\* review_request.update(status=SUBMITTED, description=description) and
\* review_request.update(status=SUBMITTED)
Update(status, with_description, description) ==
    [status |-> status, with_description |-> with_description,
     description |-> description]

HookReturn(st, fetched, warned, updates, raised) ==
    [status |-> st.status, description |-> st.description, fetched |-> fetched,
     warned |-> warned, updates |-> updates, raised |-> raised]

\* A faulty variant of close_review_request: the status of the fetched
\* review request is not looked at.
close_review_request_unchecked(st, description, env) ==
    IF ~env.root_ok \/ ~env.fetch_ok
    THEN HookReturn(st, FALSE, FALSE, <<>>, "HookError")
    ELSE LET update == IF Truthy(description)
                       THEN Update(SUBMITTED, TRUE, description.str)
                       ELSE Update(SUBMITTED, FALSE, <<>>)
         IN IF ~env.update_ok
            THEN HookReturn(st, TRUE, FALSE, <<update>>, "APIError")
            ELSE [HookReturn(st, TRUE, FALSE, <<update>>, "")
                     EXCEPT !.status = SUBMITTED,
                            !.description = IF update.with_description
                                            THEN update.description
                                            ELSE st.description]

\* close_review_request(server_url, username, password, review_request_id,
\* description) on a review request that the server holds as st.  An update
\* that the server accepts sets the status and, when given, the description.
close_review_request(st, description, env) ==
    IF ~env.root_ok \/ ~env.fetch_ok
    THEN HookReturn(st, FALSE, FALSE, <<>>, "HookError")
    ELSE IF st.status = SUBMITTED
    THEN HookReturn(st, TRUE, TRUE, <<>>, "")
    ELSE LET update == IF Truthy(description)
                       THEN Update(SUBMITTED, TRUE, description.str)
                       ELSE Update(SUBMITTED, FALSE, <<>>)
         IN IF ~env.update_ok
            THEN HookReturn(st, TRUE, FALSE, <<update>>, "APIError")
            ELSE [HookReturn(st, TRUE, FALSE, <<update>>, "")
                     EXCEPT !.status = SUBMITTED,
                            !.description = IF update.with_description
                                            THEN update.description
                                            ELSE st.description]

InitHook ==
    /\ IdleApply
    /\ pnum = IdlePNum
    /\ strip = IdleStrip
    /\ NewClient
    /\ revspec = IdleRev
    /\ synth = IdleSynth
    /\ msg = IdleMsg
    /\ \E status \in ReviewRequestStatuses, description \in {<<>>, <<"o">>} :
          hook = [IdleHook EXCEPT !.status = status, !.description = description]

CloseReviewRequest(description, env) ==
    /\ hook.ncalls < MaxHookCalls
    /\ LET r == close_review_request(hook, description, env) IN
       hook' = [status |-> r.status,
                description |-> r.description,
                ncalls |-> hook.ncalls + 1,
                status_before |-> hook.status,
                description_before |-> hook.description,
                arg |-> description,
                fetched |-> r.fetched,
                warned |-> r.warned,
                updates |-> r.updates,
                raised |-> r.raised,
                closed_before |-> (hook.closed_before
                                   \/ (hook.ncalls > 0 /\ hook.updates # <<>>
                                       /\ hook.raised = ""))]
    /\ UNCHANGED <<varsApply, pnum, strip, varsClient, revspec, synth, msg>>

NextHook ==
    \E description \in Descriptions, env \in HookEnvironments :
        CloseReviewRequest(description, env)

SpecHook == InitHook /\ [][NextHook]_vars

(***************************************************************************)
(* Properties of apply_patch (checked under Spec)                          *)
(***************************************************************************)
Called(fn, ok) == \E i \in 1..Len(calls) : calls[i] = Call(fn, ok)

\* C1: whenever the patch command exits with a code other than 0 or the
\* tolerated code 2 and its output starts with the fatal preamble and is not
\* exactly the only-garbage message, apply_patch raises SCMError and returns
\* no result.
C1_FatalOutputRaises ==
    (/\ pc = "done"
     /\ proc_rc \notin {0, 2}
     /\ proc_out # <<>>
     /\ proc_out[1] = FatalPreamble
     /\ proc_out # <<FatalPreamble, OnlyGarbageRest>>)
    => (/\ outcome.kind = "SCMError"
        /\ outcome.error_output = proc_out)

\* C1 witness: exit code 1 with a fatal message that execute handed back,
\* and the output classification raised.
C1_Witness ==
    /\ pc = "done"
    /\ proc_rc = 1
    /\ proc_out = <<FatalPreamble, OtherText>>
    /\ calls = <<Call("execute", TRUE)>>
    /\ outcome.kind = "SCMError"

\* C2: whenever apply_patch returns a result, its applied flag is true iff
\* the exit code of the patch command was 0, and its output is exactly the
\* captured output of the patch command.
C2_ResultReflectsProcess ==
    (pc = "done" /\ outcome.kind = "PatchResult")
    => (/\ outcome.applied <=> (proc_rc = 0)
        /\ outcome.patch_output = proc_out)

\* C2 witness: a result for exit code 2, whose applied flag is false.
C2_Witness ==
    /\ pc = "done"
    /\ outcome.kind = "PatchResult"
    /\ proc_rc = 2
    /\ proc_out = <<OtherText>>
    /\ ~outcome.applied

\* C3 (as claimed): when the output is exactly the only-garbage message,
\* supports_empty_files() is true and apply_patch_for_empty_files reports
\* that empty-file operations were handled, apply_patch raises no error and
\* returns an outcome that reports the patch as applied.  Stated for the exit
\* codes execute returns unconditionally (0 and the ignored 2).
C3_EmptyFilesHandledIsApplied ==
    (/\ pc = "done"
     /\ proc_rc \in {0, 2}
     /\ proc_out = <<FatalPreamble, OnlyGarbageRest>>
     /\ supports_empty
     /\ Called("apply_patch_for_empty_files", TRUE))
    => (outcome.kind = "PatchResult" /\ outcome.applied)

\* C4: when the output is exactly the only-garbage message,
\* supports_empty_files() is true and apply_patch_for_empty_files reports
\* that no empty-file operation was applied, apply_patch raises SCMError
\* carrying the command and the output.
C4_GarbageWithoutEmptyFilesRaises ==
    (/\ pc = "done"
     /\ proc_out = <<FatalPreamble, OnlyGarbageRest>>
     /\ supports_empty
     /\ Called("apply_patch_for_empty_files", FALSE))
    => (/\ outcome.kind = "SCMError"
        /\ outcome.error_cmd = cmd
        /\ Len(cmd) >= 3
        /\ outcome.error_output = proc_out)

\* C4 witness: exit code 2, only garbage, no empty file handled, error raised.
C4_Witness ==
    /\ pc = "done"
    /\ proc_rc = 2
    /\ proc_out = <<FatalPreamble, OnlyGarbageRest>>
    /\ supports_empty
    /\ calls = <<Call("execute", TRUE), Call("open", TRUE),
                 Call("apply_patch_for_empty_files", FALSE)>>
    /\ outcome.kind = "SCMError"

\* C5 (as claimed): if the patch file cannot be read for empty-file detection
\* after the patch command has run, apply_patch does not raise and yields a
\* patch outcome whose applied flag is false.
C5_UnreadablePatchGivesNotApplied ==
    (pc = "done" /\ Called("execute", TRUE) /\ Called("open", FALSE))
    => (outcome.kind = "PatchResult" /\ ~outcome.applied)

\* The -p argument of the command, if any.
StripArgs == {cmd[i] : i \in {j \in 1..Len(cmd) : cmd[j] # <<>> /\ cmd[j][1] = "-p"}}

\* C6 (as claimed): an explicitly supplied strip count overrides the
\* derivation: for every explicit p that is an integer >= 0 (0 included) or
\* its string form, apply_patch passes -p<p> and never the value that
\* _get_p_number would derive from base_path and base_dir.
C6_ExplicitPOverrides ==
    \A n \in 0..MaxP :
        (pc = "done" /\ (p = PyInt(n) \/ p = PyStr(FormatInt(n))))
        => StripArgs = {<<"-p">> \o FormatInt(n)}

(***************************************************************************)
(* Properties of _get_p_number (checked under SpecPNumber)                 *)
(***************************************************************************)
\* str.split('/'): the '/'-separated segments, empty ones included.
RECURSIVE Split(_)
Split(s) ==
    IF \A i \in 1..Len(s) : s[i] # "/" THEN <<s>>
    ELSE LET k == CHOOSE i \in 1..Len(s) :
                      s[i] = "/" /\ \A j \in 1..(i - 1) : s[j] # "/"
         IN <<SubSeq(s, 1, k - 1)>> \o Split(From(s, k))

\* base_dir is base_path followed by something (possibly nothing).
HasPrefix(dir, path) == \E rest \in 0..Len(dir) : dir = path \o From(dir, rest)

\* C7 (as claimed): for every non-empty generation base path that is a
\* prefix of the working subpath, _get_p_number returns the number of
\* '/'-separated segments of the generation base path plus one.
C7_SegmentsPlusOne ==
    (/\ pnum.called
     /\ pnum.base_path # <<>>
     /\ HasPrefix(pnum.base_dir, pnum.base_path))
    => pnum.result = Len(Split(pnum.base_path)) + 1

\* C7 (amended): for every non-empty generation base path that is a prefix
\* of the working subpath, _get_p_number returns the number of
\* '/'-separated segments of the generation base path (its number of '/'
\* plus one).
C7_SegmentCount ==
    (/\ pnum.called
     /\ pnum.base_path # <<>>
     /\ HasPrefix(pnum.base_dir, pnum.base_path))
    => pnum.result = Len(Split(pnum.base_path))

\* C7 witness: base path 'a/a' (two segments) under itself gives 2.
C7_Witness ==
    /\ pnum.called
    /\ pnum.base_path = <<"a", "/", "a">>
    /\ pnum.base_dir = <<"a", "/", "a">>
    /\ pnum.result = 2

\* C8: _get_p_number('a/b', 'a/b/c') returns 2, and for every working
\* subpath that does not start with the generation base path, and for an
\* empty generation base path, it returns the sentinel -1.
C8_ExampleAndSentinel ==
    /\ (/\ pnum.called
        /\ pnum.base_path = ExampleBasePath
        /\ pnum.base_dir = ExampleBaseDir)
       => pnum.result = 2
    /\ (/\ pnum.called
        /\ (pnum.base_path = <<>> \/ ~HasPrefix(pnum.base_dir, pnum.base_path)))
       => pnum.result = -1

\* C8 witness: the documented example has been computed.
C8_Witness ==
    /\ pnum.called
    /\ pnum.base_path = ExampleBasePath
    /\ pnum.base_dir = ExampleBaseDir
    /\ pnum.result = 2

(***************************************************************************)
(* Properties of _strip_p_num_slashes (checked under SpecStrip)            *)
(***************************************************************************)
\* The runs of adjacent '/' in s, by the position where each starts.
SlashRuns(s) == {i \in 1..Len(s) : s[i] = "/" /\ (i = 1 \/ s[i - 1] # "/")}

\* r is f without exactly k leading segments: what is cut off holds k runs
\* of '/', ends with one, and r does not go on with the same run.
RemovedExactly(f, r, k) ==
    \E cut \in 0..Len(f) :
        /\ r = From(f, cut)
        /\ Cardinality(SlashRuns(SubSeq(f, 1, cut))) = k
        /\ (cut > 0 => f[cut] = "/")
        /\ (cut < Len(f) => f[cut + 1] # "/")

StripCalled == strip.p_nums # <<>>

\* C9 (as claimed): prefix stripping removes exactly strip_count leading
\* path segments from every filename, for every filename and every
\* strip_count >= 1, counting a run of adjacent '/' as a single separator.
C9_ExactlyStripCount ==
    (StripCalled /\ strip.p_num >= 1)
    => \A i \in 1..Len(strip.files) :
           RemovedExactly(strip.files[i], strip.out[i], strip.p_num)

\* C9 (amended): for every strip_count >= 1 and every filename that holds at
\* least strip_count runs of '/', prefix stripping removes exactly
\* strip_count leading path segments, counting a run of adjacent '/' as a
\* single separator (so 'x//y/z' and 'a//b/c' with strip_count 2 give 'z'
\* and 'c').
C9_ExactlyStripCountWhenPresent ==
    (StripCalled /\ strip.p_num >= 1)
    => /\ Len(strip.out) = Len(strip.files)
       /\ \A i \in 1..Len(strip.files) :
              /\ Cardinality(SlashRuns(strip.files[i])) >= strip.p_num
                 => RemovedExactly(strip.files[i], strip.out[i], strip.p_num)
              /\ (strip.p_num = 2 /\ strip.files[i] = ExampleXYZ)
                 => strip.out[i] = <<"z">>
              /\ (strip.p_num = 2 /\ strip.files[i] = ExampleABC)
                 => strip.out[i] = <<"c">>

\* C9 witness: 'x//y/z' stripped with strip_count 2 gave 'z'.
C9_Witness ==
    /\ StripCalled
    /\ strip.p_num = 2
    /\ strip.files = <<ExampleXYZ, ExampleABC>>
    /\ strip.out = <<<<"z">>, <<"c">>>>

\* C10: prefix stripping with strip_count 0 returns every filename
\* unchanged, so any number of calls with strip_count 0 yields the original
\* list.
C10_ZeroStripsKeepList ==
    (\A i \in 1..Len(strip.p_nums) : strip.p_nums[i] = 0)
    => strip.out = strip.orig

\* C10 witness: two calls with strip_count 0 on a list with separators.
C10_Witness ==
    /\ strip.p_nums = <<0, 0>>
    /\ strip.orig = <<ExampleXYZ, <<"a", "/", "a">>>>
    /\ strip.out = strip.orig

(***************************************************************************)
(* More properties of apply_patch (checked under Spec)                     *)
(***************************************************************************)
CallsOf(fn) == {i \in 1..Len(calls) : calls[i].fn = fn}

\* C11: the applier never retries: each apply_patch call invokes the patch
\* command exactly once, and when the output is classified fatal the error is
\* raised at once, before the patch file is read and before
\* apply_patch_for_empty_files is called.
C11_OneRunFatalAtOnce ==
    pc = "done"
    => /\ Cardinality(CallsOf("execute")) = 1
       /\ calls[1].fn = "execute"
       /\ (/\ proc_out # <<>>
           /\ proc_out[1] = FatalPreamble
           /\ proc_out # <<FatalPreamble, OnlyGarbageRest>>)
          => (/\ outcome.kind = "SCMError"
              /\ CallsOf("open") = {}
              /\ CallsOf("apply_patch_for_empty_files") = {})

\* C11 witness: a backend with empty-file support, a fatal output with the
\* ignored exit code 2: the error is raised after the one execute call.
C11_Witness ==
    /\ pc = "done"
    /\ supports_empty
    /\ proc_rc = 2
    /\ proc_out = <<FatalPreamble, OtherText>>
    /\ calls = <<Call("execute", TRUE)>>
    /\ outcome.kind = "SCMError"

(***************************************************************************)
(* Properties of the client lifecycle (checked under SpecClient)           *)
(***************************************************************************)
\* C12: setup() is idempotent: a setup() call on a client whose is_setup is
\* already True does not invoke check_dependencies again and leaves is_setup
\* and the cached dependency result unchanged.
C12_SetupIdempotent ==
    (last.op = "setup" /\ last.is_setup_before)
    => /\ ~last.checked
       /\ last.raised = ""
       /\ last_check = last.check_before
       /\ is_setup
       /\ _has_deps = last.has_deps_before

\* C12 witness: a second setup() on a client that is set up.
C12_Witness ==
    /\ ncalls = 2
    /\ last.op = "setup"
    /\ last.is_setup_before
    /\ is_setup
    /\ _has_deps = "True"

\* C13: from the initial state (is_setup False, dependency result unknown) a
\* setup() call ends either in READY (check_dependencies returned; is_setup
\* True, dependency result True) or in FAILED (check_dependencies raised
\* SCMClientDependencyError, re-raised by setup; is_setup False, dependency
\* result False), and in no other state.
C13_ReadyOrFailed ==
    (last.op = "setup" /\ ~last.is_setup_before /\ last.has_deps_before = "None")
    => \/ /\ last_check = "passed"
          /\ last.raised = ""
          /\ is_setup
          /\ _has_deps = "True"
       \/ /\ last_check = "failed"
          /\ last.raised = "SCMClientDependencyError"
          /\ ~is_setup
          /\ _has_deps = "False"

\* C13 witness: the first call is a setup() whose check raised.
C13_Witness ==
    /\ ncalls = 1
    /\ last.op = "setup"
    /\ last.raised = "SCMClientDependencyError"
    /\ ~is_setup
    /\ _has_deps = "False"

\* C14: once a dependency check has run, every later has_dependencies() call
\* returns the recorded result (True iff check_dependencies did not raise)
\* without invoking check_dependencies again, and has_dependencies() never
\* propagates SCMClientDependencyError.
C14_HasDependenciesCached ==
    last.op = "has_dependencies"
    => /\ last.raised = ""
       /\ last.check_before # "none"
          => /\ ~last.checked
             /\ last.ret = (IF last.check_before = "passed" THEN "True" ELSE "False")

\* C14 witness: has_dependencies() after a failed check answers False
\* without a new check.
C14_Witness ==
    /\ last.op = "has_dependencies"
    /\ last.check_before = "failed"
    /\ ~last.checked
    /\ last.ret = "False"
    /\ last.raised = ""

\* C15 (as claimed): after a setup() call has failed with
\* SCMClientDependencyError, no later setup() or has_dependencies() call on
\* the same client invokes check_dependencies again.
C15_FailureCachedForAllCalls ==
    (last.op \in {"setup", "has_dependencies"} /\ last.failed_before)
    => ~last.checked

\* C15 (amended): after a setup() call has failed with
\* SCMClientDependencyError, no later has_dependencies() call on the same
\* client invokes check_dependencies again; a later setup() call on the
\* client, which is still not set up, does invoke it again.
C15_FailureCachedForHasDependencies ==
    /\ (last.op = "has_dependencies" /\ last.failed_before) => ~last.checked
    /\ (last.op = "setup" /\ last.failed_before /\ ~last.is_setup_before)
       => last.checked

\* C15 witness: setup() failed, then has_dependencies() answered without a
\* check.
C15_Witness ==
    /\ ncalls = 2
    /\ last.op = "has_dependencies"
    /\ last.failed_before
    /\ ~last.checked
    /\ last.ret = "False"

\* C16 (as claimed): an operational method (parse_revision_spec, diff,
\* apply_patch) called on a client that has not reached READY at least emits
\* the deprecation warning and never proceeds silently.
C16_OperationBeforeReadyWarns ==
    (last.op \in {"parse_revision_spec", "diff", "apply_patch"}
     /\ ~last.is_setup_before)
    => last.warned

\* C17 (as claimed): every operation that no backend overrides raises
\* NotImplementedError instead of returning a default value, except the
\* neutral-default collaborators, which return False or None, the
\* pending-changes query among them.
C17_NotImplementedOrNeutral ==
    last.op \in BaseOperations
    => /\ last.raised = "NotImplementedError"
          \/ (last.raised = "" /\ last.ret \in {"False", "None"})
       /\ last.op = "has_pending_changes"
          => (last.raised = "" /\ last.ret \in {"False", "None"})

\* C17 (amended): of the operations without an implementation in the base
\* class, get_commit_history, has_pending_changes (the pending-changes
\* query), create_commit, get_commit_message, delete_branch, merge,
\* push_upstream, get_raw_commit_message, get_current_branch,
\* apply_patch_for_empty_files and amend_commit_description raise
\* NotImplementedError; parse_revision_spec and diff return a dictionary
\* whose values are all None, find_matching_server_repository the pair
\* (None, None); the others return False or None.
C17_BaseOperationTable ==
    last.op \in BaseOperations
    => /\ last.op \in {"get_commit_history", "has_pending_changes",
                       "create_commit", "get_commit_message", "delete_branch",
                       "merge", "push_upstream", "get_raw_commit_message",
                       "get_current_branch", "apply_patch_for_empty_files",
                       "amend_commit_description"}
          <=> last.raised = "NotImplementedError"
       /\ last.raised \in {"", "NotImplementedError"}
       /\ last.op = "parse_revision_spec" => last.ret = "{base: None, tip: None}"
       /\ last.op = "diff"
          => last.ret = "{diff: None, parent_diff: None, commit_id: None, base_commit_id: None, review_request_extra_data: None}"
       /\ last.op = "find_matching_server_repository" => last.ret = "(None, None)"
       /\ last.op \in {"is_remote_only", "supports_empty_files"}
          => last.ret = "False"
       /\ last.op \in {"get_local_path", "get_repository_info",
                       "get_repository_name", "check_options", "get_changenum",
                       "scan_for_server", "get_tree_matches_review_request"}
          => last.ret = "None"

\* C17 witness: has_pending_changes was called and raised.
C17_Witness ==
    /\ last.op = "has_pending_changes"
    /\ last.raised = "NotImplementedError"

(***************************************************************************)
(* Properties of parse_revision_spec (checked under SpecRevisions)         *)
(***************************************************************************)
StatusOf(i) == revspec.status[revspec.tokens[i]]

\* C18: for every single-token input that resolves to a pending or shelved
\* changelist, parse_revision_spec returns tip = the pending-changelist
\* prefix followed by the token, and base = the current-sync sentinel.
C18_PendingTokenGivesSentinels ==
    (revspec.called /\ Len(revspec.tokens) = 1
     /\ StatusOf(1) \in {"pending", "shelved"})
    => /\ revspec.raised = ""
       /\ revspec.tip = <<REVISION_PENDING_CLN_PREFIX>> \o revspec.tokens[1]
       /\ revspec.base = <<REVISION_CURRENT_SYNC>>

\* C18 witness: the shelved changelist 10 was resolved.
C18_Witness ==
    /\ revspec.called
    /\ revspec.tokens = <<(<<"1", "0">>)>>
    /\ StatusOf(1) = "shelved"
    /\ revspec.tip = <<REVISION_PENDING_CLN_PREFIX, "1", "0">>

\* C19: for every single-token input that resolves to a submitted changelist
\* n, parse_revision_spec returns tip = n and base = n - 1 in decimal.
C19_SubmittedTokenGivesPredecessor ==
    (revspec.called /\ Len(revspec.tokens) = 1 /\ StatusOf(1) = "submitted")
    => /\ revspec.raised = ""
       /\ revspec.tip = revspec.tokens[1]
       /\ AllDigits(revspec.base)
       /\ DecimalValue(revspec.base) + 1 = DecimalValue(revspec.tokens[1])
       /\ (Len(revspec.base) > 1 => revspec.base[1] # "0")

\* C19 witness: the submitted changelist 10 gives base 9, one digit shorter.
C19_Witness ==
    /\ revspec.called
    /\ revspec.tokens = <<(<<"1", "0">>)>>
    /\ StatusOf(1) = "submitted"
    /\ revspec.base = <<"9">>
    /\ revspec.tip = <<"1", "0">>

\* C20: for every two-token input, parse_revision_spec returns
\* {base: token1, tip: token2} when both tokens resolve to submitted
\* changelists and token1 <= token2 as numbers, and raises
\* InvalidRevisionSpecError whenever either token is pending or shelved or
\* the two changelist numbers are out of order.
C20_TwoTokensOrderedSubmitted ==
    (revspec.called /\ Len(revspec.tokens) = 2)
    => LET t1 == revspec.tokens[1]
           t2 == revspec.tokens[2]
           numbers == AllDigits(t1) /\ AllDigits(t2)
           in_order == numbers /\ DecimalValue(t1) <= DecimalValue(t2)
           out_of_order == numbers /\ DecimalValue(t1) > DecimalValue(t2)
           unfinished == \E i \in 1..2 : StatusOf(i) \in {"pending", "shelved"}
       IN /\ (StatusOf(1) = "submitted" /\ StatusOf(2) = "submitted" /\ in_order)
             => /\ revspec.raised = ""
                /\ revspec.base = t1
                /\ revspec.tip = t2
          /\ (unfinished \/ out_of_order)
             => revspec.raised = "InvalidRevisionSpecError"

\* C20 witness: 9 and 10, both submitted, in numeric but not textual order.
C20_Witness ==
    /\ revspec.called
    /\ revspec.tokens = <<(<<"9">>), (<<"1", "0">>)>>
    /\ StatusOf(1) = "submitted"
    /\ StatusOf(2) = "submitted"
    /\ revspec.raised = ""
    /\ revspec.base = <<"9">>
    /\ revspec.tip = <<"1", "0">>

\* C21: parse_revision_spec with more than two tokens always raises
\* TooManyRevisionsError, also when none of the tokens resolves to a
\* changelist.
C21_TooManyRevisionsFirst ==
    (revspec.called /\ Len(revspec.tokens) > 2)
    => revspec.raised = "TooManyRevisionsError"

\* C21 witness: three tokens, none of which names a changelist.
C21_Witness ==
    /\ revspec.called
    /\ Len(revspec.tokens) = 3
    /\ \A i \in 1..3 : StatusOf(i) = "none"
    /\ revspec.raised = "TooManyRevisionsError"

(***************************************************************************)
(* Properties of the diff synthesis (checked under SpecSynth)              *)
(***************************************************************************)
\* The places of the diff where a line equal to `line` stands.
Places(line) == {k \in 1..Len(synth.diff) : synth.diff[k] = line}

\* The pairs <<i, j>> of a move_delete record and the move_add record of
\* its destination.
MovePairs ==
    {pair \in (1..Len(synth.files)) \X (1..Len(synth.files)) :
        /\ synth.files[pair[1]].action = "move_delete"
        /\ synth.files[pair[2]].action = "move_add"
        /\ synth.files[pair[2]].depot_path
              = MovedFile(synth.files[pair[1]].depot_path)}

MoveMarkers == {"Moved from", "Moved to", "==MV=="}

\* C22: with the moved_files capability on, each move_delete/move_add pair
\* yields one fragment with move annotations (and no fragment of its own for
\* the destination); with the capability off each pair yields a deletion of
\* the old path and an addition of the new path, and the diff has no move
\* annotation anywhere.
C22_MovePairs ==
    synth.called =>
    /\ synth.moved_files =>
          \A pair \in MovePairs :
             LET old == synth.files[pair[1]].depot_path
                 new == synth.files[pair[2]].depot_path
             IN /\ Places(Line("---", new, "")) = {}
                /\ IF synth.files[pair[1]].same
                   THEN /\ Cardinality(Places(Line("==MV==", old, new))) = 1
                        /\ Places(Line("---", old, "")) = {}
                   ELSE /\ Cardinality(Places(Line("---", old, ""))) = 1
                        /\ \A k \in Places(Line("---", old, "")) :
                              /\ k > 2
                              /\ synth.diff[k - 2] = Line("Moved from", old, "")
                              /\ synth.diff[k - 1] = Line("Moved to", new, "")
                              /\ synth.diff[k + 1] = Line("+++", new, "")
    /\ ~synth.moved_files =>
          /\ \A k \in 1..Len(synth.diff) : synth.diff[k].tag \notin MoveMarkers
          /\ \A pair \in MovePairs :
                LET old == synth.files[pair[1]].depot_path
                    new == synth.files[pair[2]].depot_path
                IN /\ Cardinality(Places(Line("---", old, ""))) = 1
                   /\ Cardinality(Places(Line("---", new, ""))) = 1
                   /\ \A k \in Places(Line("---", old, "")) :
                         /\ synth.diff[k + 1] = Line("+++", old, "")
                         /\ synth.diff[k + 2].tag = "@@ -1 +0,0 @@"
                   /\ \A k \in Places(Line("---", new, "")) :
                         /\ synth.diff[k + 1] = Line("+++", new, "")
                         /\ synth.diff[k + 2].tag = "@@ -0,0 +1 @@"

\* C22 witness: a pair with changed content, after another file, with the
\* capability on.
C22_Witness ==
    /\ synth.called
    /\ synth.moved_files
    /\ Len(synth.files) = 3
    /\ synth.files[1].action = "edit"
    /\ <<2, 3>> \in MovePairs
    /\ ~synth.files[2].same
    /\ Places(Line("Moved from", synth.files[2].depot_path, "")) = {6}

\* The places where the fragment that begins with the old path `path`
\* starts.
FragmentStarts(path) ==
    {k \in 1..Len(synth.diff) :
        /\ synth.diff[k].path = path
        /\ \/ synth.diff[k].tag \in {"Moved from", "==MV=="}
           \/ /\ synth.diff[k].tag = "---"
              /\ (k > 1 => synth.diff[k - 1].tag # "Moved to")}

\* The destination of a move whose pair is written as one fragment.
Merged(j) ==
    /\ synth.moved_files
    /\ \E i \in 1..Len(synth.files) : <<i, j>> \in MovePairs

\* C23: the diff is the concatenation of the per-file fragments in the input
\* order of the changed files: every changed file (but the destination of a
\* move written as one fragment with its source) has exactly one fragment,
\* and of two changed files the fragment of the one listed first comes first.
C23_FragmentsInInputOrder ==
    synth.called =>
    /\ \A i \in 1..Len(synth.files) :
          Cardinality(FragmentStarts(synth.files[i].depot_path))
             = (IF Merged(i) THEN 0 ELSE 1)
    /\ \A i, j \in 1..Len(synth.files) :
          i < j =>
             \A ki \in FragmentStarts(synth.files[i].depot_path),
                kj \in FragmentStarts(synth.files[j].depot_path) : ki < kj

\* C23 witness: an edited file listed between the two ends of a move; its
\* fragment stands before the fragment of the move.
C23_Witness ==
    /\ synth.called
    /\ synth.moved_files
    /\ Len(synth.files) = 3
    /\ synth.files[2].action = "edit"
    /\ <<3, 1>> \in MovePairs
    /\ FragmentStarts(synth.files[2].depot_path) = {1}
    /\ FragmentStarts(synth.files[3].depot_path) = {6}

(***************************************************************************)
(* Properties of get_commit_message (checked under SpecMsg)                *)
(***************************************************************************)
\* The place of the first line break of the raw message, 0 if it has none.
FirstBreak ==
    IF \A i \in 1..Len(msg.raw) : msg.raw[i] # "\n" THEN 0
    ELSE CHOOSE i \in 1..Len(msg.raw) :
            /\ msg.raw[i] = "\n"
            /\ \A j \in 1..(i - 1) : msg.raw[j] # "\n"

FirstLine ==
    IF FirstBreak = 0 THEN msg.raw ELSE SubSeq(msg.raw, 1, FirstBreak - 1)

Remainder ==
    IF FirstBreak = 0 THEN <<>> ELSE SubSeq(msg.raw, FirstBreak + 1, Len(msg.raw))

\* C24 (as claimed): for every non-empty raw commit message,
\* get_commit_message returns summary = the first line and description =
\* the remainder of the message after that line, the summary line not being
\* part of the description; for a message with no lines it returns None.
C24_SummaryAndRemainder ==
    msg.called =>
    /\ msg.raw = <<>> => msg.returned = "None"
    /\ msg.raw # <<>> =>
          /\ msg.returned = "dict"
          /\ msg.summary = FirstLine
          /\ msg.description = Remainder

(***************************************************************************)
(* Further properties of apply_patch (checked under Spec)                  *)
(***************************************************************************)
\* The strip count in effect: the explicit p when one is given (0 when it
\* is no integer), the value derived from base_path and base_dir otherwise.
StripCountInEffect ==
    IF p = None THEN _get_p_number(base_path, base_dir)
    ELSE IF int(p).ok THEN int(p).val
    ELSE 0

\* C25 (as claimed): the patch command is, in order, 'patch', then '-R'
\* exactly when revert is set, then '-p<n>' exactly when the strip count in
\* effect n is >= 0 (an explicit value that is no integer counts as 0; -1
\* and any negative value give no -p argument), then '-i' and the patch file.
C25_CommandShape ==
    pc = "done" =>
        cmd = <<<<"patch">>>>
              \o (IF revert THEN <<<<"-R">>>> ELSE <<>>)
              \o (IF StripCountInEffect >= 0
                  THEN <<<<"-p">> \o FormatInt(StripCountInEffect)>>
                  ELSE <<>>)
              \o <<<<"-i">>, PatchFile>>

\* C26: supports_empty_files gates the empty-file step.  When it is false,
\* apply_patch never reads the patch file and never calls
\* apply_patch_for_empty_files, and an output equal to the only-garbage
\* message that execute handed back raises no error: the outcome has
\* applied = (exit code = 0).  The fatal-preamble check is applied whatever
\* supports_empty_files() returns.
C26_EmptyFilesGate ==
    pc = "done" =>
    /\ ~supports_empty =>
          /\ CallsOf("open") = {}
          /\ CallsOf("apply_patch_for_empty_files") = {}
          /\ (Called("execute", TRUE) /\ proc_out = <<FatalPreamble, OnlyGarbageRest>>)
             => /\ outcome.kind = "PatchResult"
                /\ outcome.applied = (proc_rc = 0)
                /\ outcome.patch_output = proc_out
    /\ \A gate \in BOOLEAN :
          (/\ supports_empty = gate
           /\ Called("execute", TRUE)
           /\ proc_out # <<>>
           /\ proc_out[1] = FatalPreamble
           /\ proc_out # <<FatalPreamble, OnlyGarbageRest>>)
          => (/\ outcome.kind = "SCMError"
              /\ Len(calls) = 1)

\* C26 witness: no empty-file support, exit code 2 and the only-garbage
\* message: a result with applied = False, after the one execute call.
C26_Witness ==
    /\ pc = "done"
    /\ ~supports_empty
    /\ proc_rc = 2
    /\ proc_out = <<FatalPreamble, OnlyGarbageRest>>
    /\ outcome.kind = "PatchResult"
    /\ ~outcome.applied
    /\ Len(calls) = 1

(***************************************************************************)
(* Further properties of the client lifecycle (checked under SpecClient)   *)
(***************************************************************************)
\* C27: after any sequence of setup() and has_dependencies() calls, with
\* check_dependencies passing or failing at will, is_setup = True implies
\* that the cached dependency result is True, an unknown (None) cached
\* result implies is_setup = False, and is_setup never changes from True
\* back to False.
C27_LifecycleInvariant ==
    /\ [](/\ is_setup => _has_deps = "True"
          /\ _has_deps = "None" => ~is_setup)
    /\ [][is_setup => is_setup']_vars

\* C27 witness: a client that is set up after an earlier setup() failed, and
\* on which a later call has been made.
C27_Witness ==
    /\ ncalls = 3
    /\ setup_failed
    /\ last.is_setup_before
    /\ last.op \in {"setup", "has_dependencies"}
    /\ is_setup
    /\ _has_deps = "True"

(***************************************************************************)
(* Further properties of the two path functions                            *)
(***************************************************************************)
Min(a, b) == IF a <= b THEN a ELSE b

\* C28 (checked under SpecStrip): for every filename f and every p_num >= 1
\* the result of _strip_p_num_slashes is the suffix of f left after removing
\* min(p_num, number of '/'-runs of f) leading segments from position 0;
\* when f has fewer than p_num runs the text after the last separator is
\* returned, without error; the output list has the length and the order of
\* the input list.
C28_StripsMinOfCountAndRuns ==
    (StripCalled /\ strip.p_num >= 1)
    => /\ Len(strip.out) = Len(strip.files)
       /\ \A i \in 1..Len(strip.files) :
             LET f == strip.files[i]
                 runs == Cardinality(SlashRuns(f))
             IN /\ RemovedExactly(f, strip.out[i], Min(strip.p_num, runs))
                /\ runs < strip.p_num
                   => /\ \A k \in 1..Len(strip.out[i]) : strip.out[i][k] # "/"
                      /\ \E cut \in 0..Len(f) :
                            /\ strip.out[i] = From(f, cut)
                            /\ (cut = 0) = (runs = 0)

\* C28 witness: 'a/a' and 'a' stripped with p_num 2: 'a' and 'a', in order.
C28_Witness ==
    /\ Len(strip.p_nums) = 1
    /\ strip.p_num = 2
    /\ strip.files = <<(<<"a", "/", "a">>), (<<"a">>)>>
    /\ strip.out = <<(<<"a">>), (<<"a">>)>>

\* base_dir begins with the characters of base_path.
RawPrefix ==
    /\ Len(pnum.base_path) <= Len(pnum.base_dir)
    /\ \A k \in 1..Len(pnum.base_path) : pnum.base_dir[k] = pnum.base_path[k]

RawSlashes == Cardinality({k \in 1..Len(pnum.base_path) : pnum.base_path[k] = "/"})

\* C29 (as claimed, checked under SpecPNumber): _get_p_number decides by raw
\* string prefix and raw '/' count only: it returns base_path.count('/') + 1
\* for every base_dir that has base_path as a string prefix, also when the
\* match does not end on a segment boundary ('a/b' and 'a/bc' give 2), and a
\* trailing '/' in base_path raises the result by one ('a/b/' gives 3).
C29_RawPrefixOnly ==
    (pnum.called /\ RawPrefix) => pnum.result = RawSlashes + 1

\* C29 (amended): for every non-empty base_path, _get_p_number returns
\* base_path.count('/') + 1 for every base_dir that has base_path as a
\* string prefix, also when the match does not end on a segment boundary
\* ('a/b' and 'a/bc' give 2), and a trailing '/' in base_path raises the
\* result by one ('a/b/' gives 3); for the empty base_path, a prefix of
\* every base_dir, it returns -1.
C29_RawPrefixOfNonEmptyPath ==
    pnum.called =>
    /\ (pnum.base_path # <<>> /\ RawPrefix) => pnum.result = RawSlashes + 1
    /\ pnum.base_path = <<>> => pnum.result = -1
    /\ (pnum.base_path = ExampleBasePath /\ pnum.base_dir = ExampleBaseDirInside)
       => pnum.result = 2
    /\ (pnum.base_path = ExampleBasePathSlash /\ pnum.base_dir = ExampleBaseDir)
       => pnum.result = 3

\* C29 witness: 'a/b' against 'a/bc' gave 2.
C29_Witness ==
    /\ pnum.called
    /\ pnum.base_path = ExampleBasePath
    /\ pnum.base_dir = ExampleBaseDirInside
    /\ pnum.result = 2

(***************************************************************************)
(* Properties of close_review_request (checked under SpecHook)             *)
(***************************************************************************)
\* C30: close_review_request performs at most one update per call: when the
\* fetched review request already has status 'submitted' it issues no
\* update at all, otherwise it issues exactly one update setting status to
\* 'submitted', which carries the description if and only if a non-empty
\* description was given; a call made after a successful close changes
\* nothing.
C30_AtMostOneUpdate ==
    hook.ncalls > 0 =>
    /\ Len(hook.updates) <= 1
    /\ ~hook.fetched => hook.updates = <<>>
    /\ (hook.fetched /\ hook.status_before = "submitted") => hook.updates = <<>>
    /\ (hook.fetched /\ hook.status_before # "submitted")
       => /\ Len(hook.updates) = 1
          /\ hook.updates[1].status = "submitted"
          /\ hook.updates[1].with_description
                = (hook.arg.kind = "str" /\ hook.arg.str # <<>>)
          /\ hook.updates[1].with_description
                => hook.updates[1].description = hook.arg.str
    /\ hook.closed_before
       => /\ hook.updates = <<>>
          /\ hook.status = hook.status_before
          /\ hook.description = hook.description_before

\* C30 witness: a close with a description succeeded, and the call after it
\* fetched the review request and issued no update.
C30_Witness ==
    /\ hook.ncalls = 2
    /\ hook.closed_before
    /\ hook.fetched
    /\ hook.status_before = "submitted"
    /\ hook.description = <<"d">>
    /\ hook.updates = <<>>
    /\ hook.raised = ""

====
